---- MODULE Spec2Model ----
(***************************************************************************)
(* Model of the in-memory pack storage of item-packer-inc                  *)
(* (internal/storage): the pack catalog, the order history and the order   *)
(* calculation (greedy fill, residual addition, consolidation).            *)
(*                                                                         *)
(* A *models.Pack is modelled by its Amount, a models.OrderPack by the     *)
(* record [Quantity, Pack] where Pack is the amount of the pack it points  *)
(* to, and a slice by a sequence.                                          *)
(***************************************************************************)
EXTENDS Integers, Sequences, FiniteSets

VARIABLES
    packs,      \* PackStorage.packs: the amounts of the stored packs, in slice order
    orders,     \* PackStorage.orders: the order history, oldest first
    SoftLimit,  \* the package-level variable SoftLimit
    ret,        \* what the last call returned, and the state it started from
    created,    \* history variable: the number of orders CalculateOrder has created so far
    born,       \* history variable: for each entry of orders, the number of the call that created it
    order,      \* the *models.Order handed to mergePacks when it is exercised on its own
    pc,         \* per goroutine: position inside CalculateOrder
    local,      \* per goroutine: locals of CalculateOrder (the order built, the slice header read)
    readers     \* PackStorage.mu: number of goroutines holding the read lock

vars == <<packs, orders, SoftLimit, ret, created, born, order, pc, local, readers>>

(***************************************************************************)
(* Bounds                                                                  *)
(***************************************************************************)
\* storage state machine (Spec)
MaxAmount == 2
MaxRequested == 2
MaxCalls == 3
MaxSoftLimit == 2
\* order calculation on its own (SpecCalc)
MaxPackSize == 8
MaxItems == 14
\* consolidation on its own (SpecMerge)
MaxMergeSize == 4
MaxLines == 2
MaxQuantity == 6
\* concurrent calls (SpecConc)
NumProcs == 2

(***************************************************************************)
(* models.Order, models.OrderPack                                          *)
(***************************************************************************)
OrderPack(quantity, amount) == [Quantity |-> quantity, Pack |-> amount]

Order(requestedItems, overpackedItems, totalItems, lines) ==
    [RequestedItems |-> requestedItems, OverpackedItems |-> overpackedItems,
     TotalItems |-> totalItems, Packs |-> lines]

\* models.Order{}: the zero value
ZeroOrder == Order(0, 0, 0, <<>>)

min(a, b) == IF a < b THEN a ELSE b

(***************************************************************************)
(* Sorting helpers                                                         *)
(***************************************************************************)
RECURSIVE InsertDesc(_, _)
InsertDesc(x, s) ==
    IF s = <<>> THEN <<x>>
    ELSE IF x > Head(s) THEN <<x>> \o s
    ELSE <<Head(s)>> \o InsertDesc(x, Tail(s))

\* resortPacks: the amounts in descending order
RECURSIVE resortPacks(_)
resortPacks(s) ==
    IF s = <<>> THEN <<>> ELSE InsertDesc(Head(s), resortPacks(Tail(s)))

RECURSIVE InsertAsc(_, _)
InsertAsc(x, s) ==
    IF s = <<>> THEN <<x>>
    ELSE IF x < Head(s) THEN <<x>> \o s
    ELSE <<Head(s)>> \o InsertAsc(x, Tail(s))

\* getSortedPackSizes: a copy of the amounts in ascending order
RECURSIVE getSortedPackSizes(_)
getSortedPackSizes(s) ==
    IF s = <<>> THEN <<>> ELSE InsertAsc(Head(s), getSortedPackSizes(Tail(s)))

\* getPacks: a fresh Pack with the same Amount for every stored pack
getPacks(s) == [i \in 1..Len(s) |-> s[i]]

\* getOrders: copy(result, s.orders)
getOrders(s) == [i \in 1..Len(s) |-> s[i]]

(***************************************************************************)
(* Greedy fill                                                             *)
(***************************************************************************)
\* useFullPacksFrom without line 285: remainingItems is never reduced
RECURSIVE useFullPacksFromKeepRemaining(_, _, _, _)
useFullPacksFromKeepRemaining(ps, i, remainingItems, o) ==
    IF i > Len(ps) THEN [remainingItems |-> remainingItems, order |-> o]
    ELSE LET amount == ps[i]
             quantity == remainingItems \div amount
         IN  IF amount <= remainingItems /\ quantity > 0
             THEN useFullPacksFromKeepRemaining(ps, i + 1, remainingItems,
                      [o EXCEPT !.Packs = Append(@, OrderPack(quantity, amount)),
                                !.TotalItems = @ + quantity * amount])
             ELSE useFullPacksFromKeepRemaining(ps, i + 1, remainingItems, o)

\* useFullPacksFrom with < for <= in line 277: a pack as large as what remains is skipped
RECURSIVE useFullPacksFromStrict(_, _, _, _)
useFullPacksFromStrict(ps, i, remainingItems, o) ==
    IF i > Len(ps) THEN [remainingItems |-> remainingItems, order |-> o]
    ELSE LET amount == ps[i]
             quantity == remainingItems \div amount
         IN  IF amount < remainingItems /\ quantity > 0
             THEN useFullPacksFromStrict(ps, i + 1, remainingItems - quantity * amount,
                      [o EXCEPT !.Packs = Append(@, OrderPack(quantity, amount)),
                                !.TotalItems = @ + quantity * amount])
             ELSE useFullPacksFromStrict(ps, i + 1, remainingItems, o)

\* useFullPacksFrom with remainingItems / pack.Amount rounded up in line 278
RECURSIVE useFullPacksFromRoundsUp(_, _, _, _)
useFullPacksFromRoundsUp(ps, i, remainingItems, o) ==
    IF i > Len(ps) THEN [remainingItems |-> remainingItems, order |-> o]
    ELSE LET amount == ps[i]
             quantity == (remainingItems + amount - 1) \div amount
         IN  IF amount <= remainingItems /\ quantity > 0
             THEN useFullPacksFromRoundsUp(ps, i + 1, remainingItems - quantity * amount,
                      [o EXCEPT !.Packs = Append(@, OrderPack(quantity, amount)),
                                !.TotalItems = @ + quantity * amount])
             ELSE useFullPacksFromRoundsUp(ps, i + 1, remainingItems, o)

\* the loop of useFullPacks from index i on
RECURSIVE useFullPacksFrom(_, _, _, _)
useFullPacksFrom(ps, i, remainingItems, o) ==
    IF i > Len(ps) THEN [remainingItems |-> remainingItems, order |-> o]
    ELSE LET amount == ps[i]
             quantity == remainingItems \div amount
         IN  IF amount <= remainingItems /\ quantity > 0
             THEN useFullPacksFrom(ps, i + 1, remainingItems - quantity * amount,
                      [o EXCEPT !.Packs = Append(@, OrderPack(quantity, amount)),
                                !.TotalItems = @ + quantity * amount])
             ELSE useFullPacksFrom(ps, i + 1, remainingItems, o)

useFullPacks(ps, o) == useFullPacksFrom(ps, 1, o.RequestedItems, o)

(***************************************************************************)
(* Residual addition                                                       *)
(***************************************************************************)
\* addPackForRemainingItems without line 161: the line is added, TotalItems is not
addPackForRemainingItemsNoTotal(remainingItems, ps, o) ==
    IF remainingItems <= 0 THEN o
    ELSE LET smallestPack == ps[Len(ps)]
         IN  [o EXCEPT !.Packs = Append(@, OrderPack(1, smallestPack))]

\* addPackForRemainingItems with packs[0] for packs[len(packs)-1] in line 156
addPackForRemainingItemsLargest(remainingItems, ps, o) ==
    IF remainingItems <= 0 THEN o
    ELSE LET largestPack == ps[1]
         IN  [o EXCEPT !.Packs = Append(@, OrderPack(1, largestPack)),
                       !.TotalItems = @ + largestPack]

\* addPackForRemainingItems with remainingItems for smallestPack.Amount in line 161
addPackForRemainingItemsCountsRest(remainingItems, ps, o) ==
    IF remainingItems <= 0 THEN o
    ELSE LET smallestPack == ps[Len(ps)]
         IN  [o EXCEPT !.Packs = Append(@, OrderPack(1, smallestPack)),
                       !.TotalItems = @ + remainingItems]

addPackForRemainingItems(remainingItems, ps, o) ==
    IF remainingItems <= 0 THEN o
    ELSE LET smallestPack == ps[Len(ps)]
         IN  [o EXCEPT !.Packs = Append(@, OrderPack(1, smallestPack)),
                       !.TotalItems = @ + smallestPack]

(***************************************************************************)
(* Consolidation                                                           *)
(***************************************************************************)
\* removeSmaller that appends at line 236 outside the test of line 234: a
\* line used up by the merge stays in the order
RECURSIVE removeSmallerKeepsLines(_, _, _)
removeSmallerKeepsLines(ls, fromSize, rem) ==
    IF ls = <<>> THEN <<>>
    ELSE LET p == Head(ls)
         IN  IF p.Pack = fromSize
             THEN LET kept == p.Quantity > rem
                      q == IF kept THEN p.Quantity - rem ELSE p.Quantity
                  IN  <<[p EXCEPT !.Quantity = q]>>
                          \o removeSmallerKeepsLines(Tail(ls), fromSize, rem - min(rem, q))
             ELSE <<p>> \o removeSmallerKeepsLines(Tail(ls), fromSize, rem)

\* first loop of mergePack: the lines left after taking `rem` packs of fromSize.
\* Line 235 decrements the loop copy p.Quantity before line 238 reads it.
RECURSIVE removeSmaller(_, _, _)
removeSmaller(ls, fromSize, rem) ==
    IF ls = <<>> THEN <<>>
    ELSE LET p == Head(ls)
         IN  IF p.Pack = fromSize
             THEN LET kept == p.Quantity > rem
                      q == IF kept THEN p.Quantity - rem ELSE p.Quantity
                  IN  (IF kept THEN <<[p EXCEPT !.Quantity = q]>> ELSE <<>>)
                          \o removeSmaller(Tail(ls), fromSize, rem - min(rem, q))
             ELSE <<p>> \o removeSmaller(Tail(ls), fromSize, rem)

\* addLarger without line 248: a line of toSize that exists is left as it is
addLargerNoIncrement(ls, toSize) ==
    LET hits == {i \in DOMAIN ls : ls[i].Pack = toSize}
    IN  IF hits = {} THEN Append(ls, OrderPack(1, toSize)) ELSE ls

\* second part of mergePack: increment the first line of toSize, or append one
addLarger(ls, toSize) ==
    LET hits == {i \in DOMAIN ls : ls[i].Pack = toSize}
    IN  IF hits = {} THEN Append(ls, OrderPack(1, toSize))
        ELSE LET i == CHOOSE k \in hits : \A m \in hits : k <= m
             IN  [ls EXCEPT ![i].Quantity = @ + 1]

mergePack(ls, fromSize, toSize, quantity) ==
    addLarger(removeSmaller(ls, fromSize, quantity), toSize)

\* groupCount with += 1 for += op.Quantity in line 192: the lines of a size are counted
RECURSIVE groupCountLines(_, _)
groupCountLines(ls, size) ==
    IF ls = <<>> THEN 0
    ELSE (IF Head(ls).Pack = size THEN 1 ELSE 0) + groupCountLines(Tail(ls), size)

\* first loop of tryMergeSameSizePacks: the summed quantity of the lines of a size
RECURSIVE groupCount(_, _)
groupCount(ls, size) ==
    IF ls = <<>> THEN 0
    ELSE (IF Head(ls).Pack = size THEN Head(ls).Quantity ELSE 0) + groupCount(Tail(ls), size)

\* sizeGroups of tryMergeSameSizePacks: pack size -> summed quantity
sizeGroups(ls) == [size \in {ls[i].Pack : i \in DOMAIN ls} |-> groupCount(ls, size)]

\* the test both merge steps apply to a (size, count) and a target amount
canMerge(size, count, target) ==
    /\ target > size
    /\ target % size = 0
    /\ count >= target \div size

\* tryMergeSameSizePacks: every result the call can have.  The outer loop takes
\* the targets in ascending order; the inner loop ranges over a Go map, whose
\* iteration order is unspecified, so for the first target that has a matching
\* group any matching group can be the one merged.
tryMergeSameSizePacks(availablePacks, ls) ==
    LET groups == sizeGroups(ls)
        match(j) == {size \in DOMAIN groups : canMerge(size, groups[size], availablePacks[j])}
        hits == {j \in DOMAIN availablePacks : match(j) # {}}
    IN  IF hits = {} THEN {[merged |-> FALSE, Packs |-> ls]}
        ELSE LET j == CHOOSE k \in hits : \A m \in hits : k <= m
                 target == availablePacks[j]
             IN  {[merged |-> TRUE, Packs |-> mergePack(ls, size, target, target \div size)] :
                      size \in match(j)}

\* tryMergeDifferentSizePacks: first target (ascending), then first line, that match
tryMergeDifferentSizePacks(availablePacks, ls) ==
    LET match(j) == {i \in DOMAIN ls : canMerge(ls[i].Pack, ls[i].Quantity, availablePacks[j])}
        hits == {j \in DOMAIN availablePacks : match(j) # {}}
    IN  IF hits = {} THEN ls
        ELSE LET j == CHOOSE k \in hits : \A m \in hits : k <= m
                 i == CHOOSE k \in match(j) : \A m \in match(j) : k <= m
                 target == availablePacks[j]
             IN  mergePack(ls, ls[i].Pack, target, target \div ls[i].Pack)

\* n more iterations of the loop of mergePacks: every final value of order.Packs
RECURSIVE mergeLoop(_, _, _)
mergeLoop(availablePacks, ls, n) ==
    IF n = 0 THEN {ls}
    ELSE UNION {IF r.merged THEN mergeLoop(availablePacks, r.Packs, n - 1)
                ELSE mergeLoop(availablePacks,
                               tryMergeDifferentSizePacks(availablePacks, r.Packs), n - 1) :
                    r \in tryMergeSameSizePacks(availablePacks, ls)}

\* the values order.Packs can have at the start of an iteration of the loop of
\* mergePacks, n iterations being left
RECURSIVE mergeIterations(_, _, _)
mergeIterations(availablePacks, ls, n) ==
    IF n = 0 THEN {}
    ELSE {ls} \cup
         UNION {IF r.merged THEN mergeIterations(availablePacks, r.Packs, n - 1)
                ELSE mergeIterations(availablePacks,
                                     tryMergeDifferentSizePacks(availablePacks, r.Packs), n - 1) :
                    r \in tryMergeSameSizePacks(availablePacks, ls)}

\* mergePacks whose loop of lines 169-176 runs once
mergePacksOnce(ps, ls) == mergeLoop(getSortedPackSizes(ps), ls, 1)

\* mergePacks: one iteration per available pack
mergePacks(ps, ls) == mergeLoop(getSortedPackSizes(ps), ls, Len(ps))

(***************************************************************************)
(* Order calculation                                                       *)
(***************************************************************************)
\* CalculateOrder up to the call of mergePacks (lines 125-137)
buildOrder(ps, requestedItems) ==
    LET filled == useFullPacks(ps, Order(requestedItems, 0, 0, <<>>))
        o == addPackForRemainingItems(filled.remainingItems, ps, filled.order)
    IN  [o EXCEPT !.OverpackedItems = o.TotalItems - requestedItems]

\* every order CalculateOrder can build from the catalog snapshot ps
calculate(ps, requestedItems) ==
    LET o == buildOrder(ps, requestedItems)
    IN  {[o EXCEPT !.Packs = ls] : ls \in mergePacks(ps, o.Packs)}

\* appendOrder with > for >= in line 142: eviction starts one order late
appendOrderLateEviction(os, o, limit) ==
    LET kept == IF Len(os) > limit
                THEN SubSeq(os, Len(os) - (limit - 1) + 1, Len(os))
                ELSE os
    IN  Append(kept, o)

\* lines 142-147: evict down to SoftLimit-1 entries, then append
appendOrder(os, o, limit) ==
    LET kept == IF Len(os) >= limit
                THEN SubSeq(os, Len(os) - (limit - 1) + 1, Len(os))
                ELSE os
    IN  Append(kept, o)

(***************************************************************************)
(* Storage operations.  Each exported method holds s.mu for its whole body *)
(* (defer Unlock), so run one at a time each is one atomic step.           *)
(***************************************************************************)
Has(s, amount) == \E i \in DOMAIN s : s[i] = amount

\* index of the first pack with the amount
IndexOf(s, amount) == CHOOSE i \in DOMAIN s : s[i] = amount /\ \A k \in 1..(i - 1) : s[k] # amount

Returned(op, in, err, out) ==
    [op |-> op, in |-> in, err |-> err, out |-> out, pre |-> [packs |-> packs, orders |-> orders]]

NewPackStorage ==
    /\ packs = <<>>
    /\ orders = <<>>

GetPacks ==
    /\ ret' = Returned("GetPacks", <<>>, "nil", getPacks(packs))
    /\ UNCHANGED <<packs, orders, SoftLimit, created, born, order, pc, local, readers>>

GetOrders ==
    /\ ret' = Returned("GetOrders", <<>>, "nil", getOrders(orders))
    /\ UNCHANGED <<packs, orders, SoftLimit, created, born, order, pc, local, readers>>

\* AddPack with the limit test (line 54) ahead of the duplicate test (lines 48-52)
AddPackLimitFirst(amount) ==
    /\ IF Len(packs) >= SoftLimit
       THEN /\ ret' = Returned("AddPack", <<amount>>, "ErrSoftLimitReached", <<>>)
            /\ UNCHANGED packs
       ELSE IF Has(packs, amount)
       THEN /\ ret' = Returned("AddPack", <<amount>>, "nil", <<>>)
            /\ UNCHANGED packs
       ELSE /\ packs' = resortPacks(Append(packs, amount))
            /\ ret' = Returned("AddPack", <<amount>>, "nil", <<>>)
    /\ UNCHANGED <<orders, SoftLimit, created, born, order, pc, local, readers>>

\* AddPack with > for >= in line 54: one pack more than the limit gets in
AddPackLimitOffByOne(amount) ==
    /\ IF Has(packs, amount)
       THEN /\ ret' = Returned("AddPack", <<amount>>, "nil", <<>>)
            /\ UNCHANGED packs
       ELSE IF Len(packs) > SoftLimit
       THEN /\ ret' = Returned("AddPack", <<amount>>, "ErrSoftLimitReached", <<>>)
            /\ UNCHANGED packs
       ELSE /\ packs' = resortPacks(Append(packs, amount))
            /\ ret' = Returned("AddPack", <<amount>>, "nil", <<>>)
    /\ UNCHANGED <<orders, SoftLimit, created, born, order, pc, local, readers>>

AddPack(amount) ==
    /\ IF Has(packs, amount)
       THEN /\ ret' = Returned("AddPack", <<amount>>, "nil", <<>>)
            /\ UNCHANGED packs
       ELSE IF Len(packs) >= SoftLimit
       THEN /\ ret' = Returned("AddPack", <<amount>>, "ErrSoftLimitReached", <<>>)
            /\ UNCHANGED packs
       ELSE /\ packs' = resortPacks(Append(packs, amount))
            /\ ret' = Returned("AddPack", <<amount>>, "nil", <<>>)
    /\ UNCHANGED <<orders, SoftLimit, created, born, order, pc, local, readers>>

\* UpdatePack without the test of lines 71-75: the new amount may exist already
UpdatePackNoExistsCheck(oldAmount, newAmount) ==
    /\ IF Has(packs, oldAmount)
       THEN /\ packs' = resortPacks([packs EXCEPT ![IndexOf(packs, oldAmount)] = newAmount])
            /\ ret' = Returned("UpdatePack", <<oldAmount, newAmount>>, "nil", <<>>)
       ELSE /\ ret' = Returned("UpdatePack", <<oldAmount, newAmount>>, "ErrPackNotFound", <<>>)
            /\ UNCHANGED packs
    /\ UNCHANGED <<orders, SoftLimit, created, born, order, pc, local, readers>>

\* UpdatePack without line 82: the slice is not sorted again
UpdatePackNoResort(oldAmount, newAmount) ==
    /\ IF Has(packs, newAmount)
       THEN /\ ret' = Returned("UpdatePack", <<oldAmount, newAmount>>, "ErrPackExists", <<>>)
            /\ UNCHANGED packs
       ELSE IF Has(packs, oldAmount)
       THEN /\ packs' = [packs EXCEPT ![IndexOf(packs, oldAmount)] = newAmount]
            /\ ret' = Returned("UpdatePack", <<oldAmount, newAmount>>, "nil", <<>>)
       ELSE /\ ret' = Returned("UpdatePack", <<oldAmount, newAmount>>, "ErrPackNotFound", <<>>)
            /\ UNCHANGED packs
    /\ UNCHANGED <<orders, SoftLimit, created, born, order, pc, local, readers>>

UpdatePack(oldAmount, newAmount) ==
    /\ IF Has(packs, newAmount)
       THEN /\ ret' = Returned("UpdatePack", <<oldAmount, newAmount>>, "ErrPackExists", <<>>)
            /\ UNCHANGED packs
       ELSE IF Has(packs, oldAmount)
       THEN /\ packs' = resortPacks([packs EXCEPT ![IndexOf(packs, oldAmount)] = newAmount])
            /\ ret' = Returned("UpdatePack", <<oldAmount, newAmount>>, "nil", <<>>)
       ELSE /\ ret' = Returned("UpdatePack", <<oldAmount, newAmount>>, "ErrPackNotFound", <<>>)
            /\ UNCHANGED packs
    /\ UNCHANGED <<orders, SoftLimit, created, born, order, pc, local, readers>>

\* DeletePack with s.packs[:i] for line 99: the packs after the deleted one go too
DeletePackTruncates(amount) ==
    /\ IF Has(packs, amount)
       THEN LET i == IndexOf(packs, amount)
            IN  /\ packs' = SubSeq(packs, 1, i - 1)
                /\ ret' = Returned("DeletePack", <<amount>>, "nil", <<>>)
       ELSE /\ ret' = Returned("DeletePack", <<amount>>, "ErrPackNotFound", <<>>)
            /\ UNCHANGED packs
    /\ UNCHANGED <<orders, SoftLimit, created, born, order, pc, local, readers>>

DeletePack(amount) ==
    /\ IF Has(packs, amount)
       THEN LET i == IndexOf(packs, amount)
            IN  /\ packs' = SubSeq(packs, 1, i - 1) \o SubSeq(packs, i + 1, Len(packs))
                /\ ret' = Returned("DeletePack", <<amount>>, "nil", <<>>)
       ELSE /\ ret' = Returned("DeletePack", <<amount>>, "ErrPackNotFound", <<>>)
            /\ UNCHANGED packs
    /\ UNCHANGED <<orders, SoftLimit, created, born, order, pc, local, readers>>

\* CalculateOrder recording the failed call: the empty order is appended before
\* ErrNoPacksAvailable is returned
CalculateOrderRecordsFailure(requestedItems) ==
    /\ IF Len(packs) = 0
       THEN /\ ret' = Returned("CalculateOrder", <<requestedItems>>, "ErrNoPacksAvailable", ZeroOrder)
            /\ orders' = appendOrder(orders, ZeroOrder, SoftLimit)
            /\ created' = created + 1
            /\ born' = appendOrder(born, created + 1, SoftLimit)
            /\ UNCHANGED packs
       ELSE \E o \in calculate(getPacks(resortPacks(packs)), requestedItems) :
                /\ packs' = resortPacks(packs)
                /\ orders' = appendOrder(orders, o, SoftLimit)
                /\ created' = created + 1
                /\ born' = appendOrder(born, created + 1, SoftLimit)
                /\ ret' = Returned("CalculateOrder", <<requestedItems>>, "nil", o)
    /\ UNCHANGED <<SoftLimit, order, pc, local, readers>>

CalculateOrder(requestedItems) ==
    /\ IF Len(packs) = 0
       THEN /\ ret' = Returned("CalculateOrder", <<requestedItems>>, "ErrNoPacksAvailable", ZeroOrder)
            /\ UNCHANGED <<packs, orders, created, born>>
       ELSE \E o \in calculate(getPacks(resortPacks(packs)), requestedItems) :
                /\ packs' = resortPacks(packs)
                /\ orders' = appendOrder(orders, o, SoftLimit)
                /\ created' = created + 1
                /\ born' = appendOrder(born, created + 1, SoftLimit)
                /\ ret' = Returned("CalculateOrder", <<requestedItems>>, "nil", o)
    /\ UNCHANGED <<SoftLimit, order, pc, local, readers>>

(***************************************************************************)
(* Spec: the storage, one call at a time                                   *)
(***************************************************************************)
NoGoroutines ==
    /\ pc = <<>>
    /\ local = <<>>
    /\ readers = 0

Init ==
    /\ NewPackStorage
    /\ SoftLimit \in 1..MaxSoftLimit
    /\ ret = [op |-> "NewPackStorage", in |-> <<>>, err |-> "nil", out |-> <<>>,
              pre |-> [packs |-> <<>>, orders |-> <<>>]]
    /\ created = 0
    /\ born = <<>>
    /\ order = ZeroOrder
    /\ NoGoroutines

Next ==
    \/ \E amount \in 1..MaxAmount : AddPack(amount)
    \/ \E oldAmount, newAmount \in 1..MaxAmount : UpdatePack(oldAmount, newAmount)
    \/ \E amount \in 1..MaxAmount : DeletePack(amount)
    \/ \E requestedItems \in 1..MaxRequested :
           created < MaxCalls /\ CalculateOrder(requestedItems)
    \/ GetPacks
    \/ GetOrders

Spec == Init /\ [][Next]_vars

(***************************************************************************)
(* SpecCalc: one CalculateOrder on a catalog built by earlier AddPack calls *)
(***************************************************************************)
DefaultSoftLimit == 20

RECURSIVE descending(_)
descending(S) ==
    IF S = {} THEN <<>>
    ELSE LET m == CHOOSE x \in S : \A y \in S : y <= x
         IN  <<m>> \o descending(S \ {m})

\* the catalogs AddPack can build from amounts 1..n: distinct, sorted descending
Catalogs(n) == {descending(S) : S \in SUBSET (1..n)}

InitCalc ==
    /\ packs \in Catalogs(MaxPackSize) \ {<<>>}
    /\ orders = <<>>
    /\ SoftLimit = DefaultSoftLimit
    /\ ret = [op |-> "AddPack", in |-> <<packs[1]>>, err |-> "nil", out |-> <<>>,
              pre |-> [packs |-> packs, orders |-> <<>>]]
    /\ created = 0
    /\ born = <<>>
    /\ order = ZeroOrder
    /\ NoGoroutines

NextCalc ==
    \E requestedItems \in 1..MaxItems :
        created = 0 /\ CalculateOrder(requestedItems)

SpecCalc == InitCalc /\ [][NextCalc]_vars

(***************************************************************************)
(* SpecMerge: mergePacks called on an order of its own, the way            *)
(* TestMergePacks calls it: lines of catalog sizes with positive           *)
(* quantities, several lines may carry the same size.  It is called twice. *)
(***************************************************************************)
\* the number of items the lines stand for
RECURSIVE linesTotal(_)
linesTotal(ls) ==
    IF ls = <<>> THEN 0 ELSE Head(ls).Quantity * Head(ls).Pack + linesTotal(Tail(ls))

\* the sequences of at most n elements of S
RECURSIVE SeqsUpTo(_, _)
SeqsUpTo(S, n) ==
    IF n = 0 THEN {<<>>}
    ELSE LET shorter == SeqsUpTo(S, n - 1)
         IN  shorter \cup {Append(q, x) : q \in shorter, x \in S}

OrderLines(ps) ==
    SeqsUpTo({OrderPack(quantity, ps[i]) : quantity \in 1..MaxQuantity, i \in DOMAIN ps}, MaxLines)

\* ret.in is <<order.Packs before the call, number of the call>>, ret.out is
\* order.Packs after it
mergePacksCall ==
    /\ \E ls \in mergePacks(getPacks(packs), order.Packs) :
           /\ order' = [order EXCEPT !.Packs = ls]
           /\ ret' = Returned("mergePacks", <<order.Packs, ret.in[2] + 1>>, "nil", ls)
    /\ UNCHANGED <<packs, orders, SoftLimit, created, born, pc, local, readers>>

InitMerge ==
    /\ packs \in Catalogs(MaxMergeSize) \ {<<>>}
    /\ orders = <<>>
    /\ SoftLimit = DefaultSoftLimit
    /\ \E ls \in OrderLines(packs) : order = Order(linesTotal(ls), 0, linesTotal(ls), ls)
    /\ ret = [op |-> "GetPacks", in |-> <<order.Packs, 0>>, err |-> "nil", out |-> packs,
              pre |-> [packs |-> packs, orders |-> <<>>]]
    /\ created = 0
    /\ born = <<>>
    /\ NoGoroutines

NextMerge == ret.in[2] < 2 /\ mergePacksCall

SpecMerge == InitMerge /\ [][NextMerge]_vars

\* C6: consolidation keeps the total: the sum of quantity x pack size over the
\* lines is the same before and after mergePacks, for any order whose lines
\* have catalog sizes and positive quantities.
C6_MergeKeepsTotal ==
    ret.op = "mergePacks" => linesTotal(ret.out) = linesTotal(ret.in[1])

\* C7: consolidation is idempotent: mergePacks run on the output of mergePacks
\* leaves the lines as they are.
C7_MergeIdempotent ==
    (ret.op = "mergePacks" /\ ret.in[2] = 2) => ret.out = ret.in[1]

(***************************************************************************)
(* SpecConc: CalculateOrder called from several goroutines.                *)
(* CalculateOrder takes s.mu.RLock, which any number of goroutines can     *)
(* hold at once, so its reads and writes of s.orders interleave with those *)
(* of the other callers; the steps below are its accesses to shared state. *)
(* Goroutine p makes one call, CalculateOrder(p), so the orders of         *)
(* different goroutines differ.                                            *)
(* AddPack, UpdatePack and DeletePack take s.mu.Lock for their whole body: *)
(* they run as one step, and only while no goroutine holds the read lock.  *)
(***************************************************************************)
Procs == 1..NumProcs

\* line 115: s.mu.RLock()
RLock(p, requestedItems) ==
    /\ pc[p] = "idle"
    /\ readers' = readers + 1
    /\ local' = [local EXCEPT ![p].requestedItems = requestedItems]
    /\ pc' = [pc EXCEPT ![p] = "locked"]
    /\ UNCHANGED <<packs, orders, SoftLimit, ret, created, born, order>>

\* lines 118-139: the emptiness check, resortPacks, getPacks and the calculation;
\* on an empty catalog the call returns and the deferred RUnlock runs
Build(p) ==
    /\ pc[p] = "locked"
    /\ IF Len(packs) = 0
       THEN /\ local' = [local EXCEPT ![p].err = "ErrNoPacksAvailable"]
            /\ pc' = [pc EXCEPT ![p] = "done"]
            /\ readers' = readers - 1
            /\ UNCHANGED packs
       ELSE \E o \in calculate(getPacks(resortPacks(packs)), local[p].requestedItems) :
                /\ packs' = resortPacks(packs)
                /\ local' = [local EXCEPT ![p].order = o]
                /\ pc' = [pc EXCEPT ![p] = "built"]
                /\ UNCHANGED readers
    /\ UNCHANGED <<orders, SoftLimit, ret, created, born, order>>

\* lines 142-145: evict when the history is at the limit
Trim(p) ==
    /\ pc[p] = "built"
    /\ orders' = IF Len(orders) >= SoftLimit
                 THEN SubSeq(orders, Len(orders) - (SoftLimit - 1) + 1, Len(orders))
                 ELSE orders
    /\ pc' = [pc EXCEPT ![p] = "trimmed"]
    /\ UNCHANGED <<packs, SoftLimit, ret, created, born, order, local, readers>>

\* line 147, right-hand side: append reads the slice s.orders
Load(p) ==
    /\ pc[p] = "trimmed"
    /\ local' = [local EXCEPT ![p].orders = orders]
    /\ pc' = [pc EXCEPT ![p] = "loaded"]
    /\ UNCHANGED <<packs, orders, SoftLimit, ret, created, born, order, readers>>

\* line 147, assignment: the appended slice is stored in s.orders
Store(p) ==
    /\ pc[p] = "loaded"
    /\ orders' = Append(local[p].orders, local[p].order)
    /\ pc' = [pc EXCEPT ![p] = "stored"]
    /\ UNCHANGED <<packs, SoftLimit, ret, created, born, order, local, readers>>

\* line 149 and the deferred s.mu.RUnlock()
Return(p) ==
    /\ pc[p] = "stored"
    /\ readers' = readers - 1
    /\ pc' = [pc EXCEPT ![p] = "done"]
    /\ UNCHANGED <<packs, orders, SoftLimit, ret, created, born, order, local>>

\* a catalog mutation that does not wait for the readers to leave
WriterIgnoresReaders ==
    \/ \E amount \in 1..MaxAmount : AddPack(amount)
    \/ \E oldAmount, newAmount \in 1..MaxAmount : UpdatePack(oldAmount, newAmount)
    \/ \E amount \in 1..MaxAmount : DeletePack(amount)

\* a catalog mutation: s.mu.Lock() needs the read lock to be free
Writer ==
    /\ readers = 0
    /\ \/ \E amount \in 1..MaxAmount : AddPack(amount)
       \/ \E oldAmount, newAmount \in 1..MaxAmount : UpdatePack(oldAmount, newAmount)
       \/ \E amount \in 1..MaxAmount : DeletePack(amount)

InitConc ==
    /\ NewPackStorage
    /\ SoftLimit \in 1..MaxSoftLimit
    /\ ret = [op |-> "NewPackStorage", in |-> <<>>, err |-> "nil", out |-> <<>>,
              pre |-> [packs |-> <<>>, orders |-> <<>>]]
    /\ created = 0
    /\ born = <<>>
    /\ order = ZeroOrder
    /\ pc = [p \in Procs |-> "idle"]
    /\ local = [p \in Procs |->
                   [requestedItems |-> 0, order |-> ZeroOrder, err |-> "nil", orders |-> <<>>]]
    /\ readers = 0

NextConc ==
    \/ \E p \in Procs : RLock(p, p)
    \/ \E p \in Procs : Build(p)
    \/ \E p \in Procs : Trim(p)
    \/ \E p \in Procs : Load(p)
    \/ \E p \in Procs : Store(p)
    \/ \E p \in Procs : Return(p)
    \/ Writer

SpecConc == InitConc /\ [][NextConc]_vars

\* the histories that appending the orders of the goroutines in P to h, one
\* call at a time in some order, can give
RECURSIVE serialHistories(_, _)
serialHistories(h, P) ==
    IF P = {} THEN {h}
    ELSE UNION {serialHistories(appendOrder(h, local[p].order, SoftLimit), P \ {p}) : p \in P}

\* C9: appends to the history are serialized: once the concurrent
\* CalculateOrder calls have returned, the history is one that running the
\* successful calls one at a time in some order gives, so no order is lost.
C9_AppendsSerialized ==
    (\A p \in Procs : pc[p] = "done") =>
        orders \in serialHistories(<<>>, {p \in Procs : local[p].err = "nil"})

(***************************************************************************)
(* Properties of the order calculation                                     *)
(***************************************************************************)
CalcCalled == ret.op = "CalculateOrder"
CalcSucceeded == ret.op = "CalculateOrder" /\ ret.err = "nil"

\* the order of the last call as it stood before mergePacks ran
RawOrder == buildOrder(getPacks(resortPacks(ret.pre.packs)), ret.in[1])

\* C1: on a non-empty catalog of distinct positive sizes CalculateOrder succeeds
\* for every requested quantity R > 0, and the order it returns has
\* TotalItems >= R and OverpackedItems = TotalItems - R >= 0.
C1_NeverUnderFulfils ==
    (CalcCalled /\ ret.pre.packs # <<>>) =>
        /\ ret.err = "nil"
        /\ ret.out.RequestedItems = ret.in[1]
        /\ ret.out.TotalItems >= ret.in[1]
        /\ ret.out.OverpackedItems = ret.out.TotalItems - ret.in[1]
        /\ ret.out.OverpackedItems >= 0

\* a call whose greedy fill left a remainder, so that a residual pack was added
C1_Witness ==
    /\ CalcSucceeded
    /\ ret.out.OverpackedItems > 0
    /\ Len(ret.pre.packs) >= 2

\* C2: after a successful CalculateOrder no two lines of the returned order
\* share the same pack size.
C2_UniqueSizes ==
    CalcSucceeded =>
        \A i, j \in DOMAIN ret.out.Packs :
            ret.out.Packs[i].Pack = ret.out.Packs[j].Pack => i = j

\* the totals <= n that sums of at most k packs with sizes in S can form
RECURSIVE packSums(_, _, _)
packSums(S, n, k) ==
    IF k = 0 THEN {0}
    ELSE LET prev == packSums(S, n, k - 1)
         IN  prev \cup {t \in {a + b : a \in prev, b \in S} : t <= n}

\* the smallest total >= r that whole packs with sizes in S can form
MinCover(S, r) ==
    LET m == CHOOSE x \in S : \A y \in S : y <= x
        sums == {t \in packSums(S, r + m, r + m) : t >= r}
    IN  CHOOSE t \in sums : \A u \in sums : t <= u

\* C3: the TotalItems of the returned order is the smallest total >= R that
\* non-negative multiples of the catalog's pack sizes can form.
C3_MinimalTotal ==
    CalcSucceeded =>
        ret.out.TotalItems =
            MinCover({ret.pre.packs[i] : i \in DOMAIN ret.pre.packs}, ret.in[1])

\* C4: on an empty catalog CalculateOrder returns ErrNoPacksAvailable with the
\* zero-value order and leaves the order history and the catalog as they were.
C4_EmptyCatalogFails ==
    (CalcCalled /\ ret.pre.packs = <<>>) =>
        /\ ret.err = "ErrNoPacksAvailable"
        /\ ret.out = ZeroOrder
        /\ orders = ret.pre.orders
        /\ packs = ret.pre.packs

\* a failed call made when the history already held an order
C4_Witness ==
    /\ CalcCalled
    /\ ret.err = "ErrNoPacksAvailable"
    /\ ret.pre.orders # <<>>

\* C5: the TotalItems of a returned order is the sum of quantity x pack size
\* over its lines: the consolidation run by CalculateOrder keeps the number of
\* items the lines stand for.
C5_TotalIsSumOfLines ==
    CalcSucceeded =>
        /\ ret.out.TotalItems = linesTotal(ret.out.Packs)
        /\ linesTotal(ret.out.Packs) = linesTotal(RawOrder.Packs)

\* a call in which consolidation rewrote the lines, into a line that existed
C5_Witness ==
    /\ CalcSucceeded
    /\ ret.out.Packs # RawOrder.Packs
    /\ \E i \in DOMAIN ret.out.Packs : ret.out.Packs[i].Quantity >= 2

(***************************************************************************)
(* Properties of the order history                                         *)
(***************************************************************************)
\* C8: with the cap SoftLimit = N fixed and calls made one at a time, after k
\* successful CalculateOrder calls the history, and what GetOrders returns,
\* holds min(k, N) orders: those of the last min(k, N) calls, in call order,
\* the newest being the order the last call returned.
C8_HistoryKeepsMostRecent ==
    LET n == min(created, SoftLimit)
    IN  /\ Len(orders) = n
        /\ born = [i \in 1..n |-> created - n + i]
        /\ CalcSucceeded => orders[n] = ret.out
        /\ ret.op = "GetOrders" => ret.out = orders

\* GetOrders after more successful calls than the cap, the two orders kept
\* being different
C8_Witness ==
    /\ ret.op = "GetOrders"
    /\ created > SoftLimit
    /\ SoftLimit >= 2
    /\ orders[1] # orders[2]

\* C10: CalculateOrder is deterministic: whatever order the size-group map is
\* iterated in, the same catalog and the same requested quantity give the same
\* RequestedItems, TotalItems, OverpackedItems and lines.
C10_Deterministic ==
    CalcSucceeded =>
        \A o \in calculate(getPacks(resortPacks(ret.pre.packs)), ret.in[1]) : o = ret.out

\* a call whose consolidation merged while the order held several pack sizes
C10_Witness ==
    /\ CalcSucceeded
    /\ ret.out.Packs # RawOrder.Packs
    /\ Cardinality(DOMAIN sizeGroups(RawOrder.Packs)) >= 2

(***************************************************************************)
(* Exact fit                                                               *)
(***************************************************************************)
\* C11: when the requested quantity R is one of the catalog's pack sizes, the
\* returned order has exactly one line, one pack of size R, with
\* TotalItems = R and OverpackedItems = 0.
C11_ExactFitOneLine ==
    (CalcCalled /\ Has(ret.pre.packs, ret.in[1])) =>
        /\ ret.err = "nil"
        /\ ret.out.Packs = <<OrderPack(1, ret.in[1])>>
        /\ ret.out.TotalItems = ret.in[1]
        /\ ret.out.OverpackedItems = 0

\* an exact fit on a catalog that also holds a multiple of R and a smaller size
C11_Witness ==
    /\ CalcSucceeded
    /\ Has(ret.pre.packs, ret.in[1])
    /\ Has(ret.pre.packs, 2 * ret.in[1])
    /\ ret.pre.packs[Len(ret.pre.packs)] < ret.in[1]

(***************************************************************************)
(* SpecCatalog: the catalog operations on their own, under a fixed limit   *)
(***************************************************************************)
MaxCatalogAmount == 4
MaxCatalogLimit == 3

InitCatalog ==
    /\ NewPackStorage
    /\ SoftLimit \in 1..MaxCatalogLimit
    /\ ret = [op |-> "NewPackStorage", in |-> <<>>, err |-> "nil", out |-> <<>>,
              pre |-> [packs |-> <<>>, orders |-> <<>>]]
    /\ created = 0
    /\ born = <<>>
    /\ order = ZeroOrder
    /\ NoGoroutines

NextCatalog ==
    \/ \E amount \in 1..MaxCatalogAmount : AddPack(amount)
    \/ \E oldAmount, newAmount \in 1..MaxCatalogAmount : UpdatePack(oldAmount, newAmount)
    \/ \E amount \in 1..MaxCatalogAmount : DeletePack(amount)
    \/ GetPacks

SpecCatalog == InitCatalog /\ [][NextCatalog]_vars

\* the amounts in a slice of packs
Amounts(s) == {s[i] : i \in DOMAIN s}

\* C12: AddPack of a size the catalog holds returns no error and leaves the
\* catalog as it was, also when the catalog is at the soft limit.
C12_AddExistingIsNoOp ==
    (ret.op = "AddPack" /\ Has(ret.pre.packs, ret.in[1])) =>
        /\ ret.err = "nil"
        /\ packs = ret.pre.packs

\* AddPack of an existing size on a catalog that is at the soft limit
C12_Witness ==
    /\ ret.op = "AddPack"
    /\ Has(ret.pre.packs, ret.in[1])
    /\ Len(ret.pre.packs) = SoftLimit

\* C13: with the soft limit L fixed, AddPack of a new size on a catalog of L
\* sizes returns ErrSoftLimitReached and leaves the catalog as it was, and the
\* catalog never holds more than L sizes.
C13_SoftLimitBoundsCatalog ==
    /\ Len(packs) <= SoftLimit
    /\ (ret.op = "AddPack" /\ ~Has(ret.pre.packs, ret.in[1])
            /\ Len(ret.pre.packs) >= SoftLimit) =>
           /\ ret.err = "ErrSoftLimitReached"
           /\ packs = ret.pre.packs

\* a rejected AddPack on a catalog of several sizes
C13_Witness ==
    /\ ret.op = "AddPack"
    /\ ret.err = "ErrSoftLimitReached"
    /\ Len(packs) >= 2

\* the catalog after a successful UpdatePack: the old amount replaced by the new
Replaced(s, oldAmount, newAmount) ==
    /\ Amounts(packs) = (Amounts(s) \ {oldAmount}) \cup {newAmount}
    /\ Len(packs) = Len(s)

\* C14 as stated: UpdatePack(old, new) fails with ErrPackNotFound when old is
\* not in the catalog and with ErrPackExists when new is in it, the catalog
\* unchanged; otherwise it succeeds with old replaced by new.
C14_UpdatePackErrors ==
    ret.op = "UpdatePack" =>
        LET oldIn == Has(ret.pre.packs, ret.in[1])
            newIn == Has(ret.pre.packs, ret.in[2])
        IN  /\ ~oldIn => (ret.err = "ErrPackNotFound" /\ packs = ret.pre.packs)
            /\ newIn => (ret.err = "ErrPackExists" /\ packs = ret.pre.packs)
            /\ (oldIn /\ ~newIn) =>
                   (ret.err = "nil" /\ Replaced(ret.pre.packs, ret.in[1], ret.in[2]))

\* C14 amended: UpdatePack(old, new) fails with ErrPackExists when new is in
\* the catalog, whether or not old is; it fails with ErrPackNotFound when
\* neither is; on either failure the catalog is unchanged; otherwise it
\* succeeds with old replaced by new.
C14_UpdatePackExistsFirst ==
    ret.op = "UpdatePack" =>
        LET oldIn == Has(ret.pre.packs, ret.in[1])
            newIn == Has(ret.pre.packs, ret.in[2])
        IN  /\ newIn => (ret.err = "ErrPackExists" /\ packs = ret.pre.packs)
            /\ (~oldIn /\ ~newIn) => (ret.err = "ErrPackNotFound" /\ packs = ret.pre.packs)
            /\ (oldIn /\ ~newIn) =>
                   (ret.err = "nil" /\ Replaced(ret.pre.packs, ret.in[1], ret.in[2]))

\* UpdatePack from an absent size to a size the catalog holds
C14_Witness ==
    /\ ret.op = "UpdatePack"
    /\ ~Has(ret.pre.packs, ret.in[1])
    /\ Has(ret.pre.packs, ret.in[2])
    /\ Len(ret.pre.packs) >= 2

\* the elements of s other than amount, in their order
RECURSIVE Without(_, _)
Without(s, amount) ==
    IF s = <<>> THEN <<>>
    ELSE (IF Head(s) = amount THEN <<>> ELSE <<Head(s)>>) \o Without(Tail(s), amount)

\* C15: DeletePack of an absent size fails with ErrPackNotFound and leaves the
\* catalog as it was; DeletePack of a size in the catalog removes that size
\* and keeps the others in their order.
C15_DeletePack ==
    ret.op = "DeletePack" =>
        IF Has(ret.pre.packs, ret.in[1])
        THEN /\ ret.err = "nil"
             /\ packs = Without(ret.pre.packs, ret.in[1])
             /\ Len(packs) = Len(ret.pre.packs) - 1
        ELSE /\ ret.err = "ErrPackNotFound"
             /\ packs = ret.pre.packs

\* a pack deleted from between two others
C15_Witness ==
    /\ ret.op = "DeletePack"
    /\ ret.err = "nil"
    /\ Len(ret.pre.packs) = 3
    /\ ret.in[1] = ret.pre.packs[2]

StrictlyDescending(s) == \A i, j \in DOMAIN s : i < j => s[i] > s[j]

\* C16: after any sequence of AddPack, UpdatePack and DeletePack calls the
\* stored catalog, and what GetPacks returns, is sorted in strictly
\* descending order of amount, so no size occurs twice.
C16_CatalogSortedDescending ==
    /\ StrictlyDescending(packs)
    /\ ret.op = "GetPacks" => (StrictlyDescending(ret.out) /\ ret.out = packs)

\* GetPacks on a catalog of three sizes
C16_Witness ==
    /\ ret.op = "GetPacks"
    /\ Len(ret.out) >= 3


(***************************************************************************)
(* SpecAlias: the caller writes to what GetOrders, CalculateOrder and      *)
(* GetPacks handed out                                                     *)
(***************************************************************************)
MaxAliasCalls == 2

\* the value the caller writes (TestGetOrdersReturnsCopy); the program stores
\* no quantity and no amount this large
WrittenValue == 999

\* getOrders: copy() copies the Order structs, so element i of the result has
\* its own fields and the Packs slice (backing array, *Pack pointers) of
\* stored order i
getOrdersAlias(s) == [i \in 1..Len(s) |-> i]

\* CalculateOrder: line 147 stores *order and line 149 returns *order, two
\* struct copies with one Packs slice; the stored one is the last of s.orders
CalculateOrderAlias(s) == <<Len(s)>>

\* getPacks that copies the pointers of s.packs: element i is stored pack i
getPacksAliasShared(s) == [i \in 1..Len(s) |-> i]

\* getPacks: every element of the result is a new Pack (0: no stored pack)
getPacksAlias(s) == [i \in 1..Len(s) |-> 0]

\* the stored orders that the value returned by the last call shares lines with
returnedAlias ==
    IF ret.err # "nil" THEN <<>>
    ELSE IF ret.op = "GetOrders" THEN getOrdersAlias(orders)
    ELSE IF ret.op = "CalculateOrder" THEN CalculateOrderAlias(orders)
    ELSE <<>>

\* result[i].Packs[j].Quantity = v lands in the backing array of stored order at
writeQuantity(s, at, j, v) == [s EXCEPT ![at].Packs[j].Quantity = v]

\* result[i].Packs[j].Pack.Amount = v lands in the Pack that line j points to;
\* the lines of one order with the same amount point to the same Pack
\* (useFullPacks and addPackForRemainingItems take it from one getPacks slice)
writeAmount(s, at, j, v) ==
    LET ls == s[at].Packs
    IN  [s EXCEPT ![at].Packs =
            [k \in DOMAIN ls |->
                IF ls[k].Pack = ls[j].Pack THEN OrderPack(ls[k].Quantity, v) ELSE ls[k]]]

\* p[i].Amount = v lands in stored pack alias[i], if there is one
writePack(s, alias, i, v) ==
    IF alias[i] = 0 THEN s ELSE [s EXCEPT ![alias[i]] = v]

\* no line of the stored orders holds v
Unwritten(s, v) ==
    \A at \in DOMAIN s : \A k \in DOMAIN s[at].Packs :
        s[at].Packs[k].Quantity # v /\ s[at].Packs[k].Pack # v

\* the caller assigns v to a part of order i of the returned value: a field
\* of the order, its Packs slice, or the quantity or the pack amount of line
\* j; it does so while the history holds no v from an earlier assignment
CallerWritesOrder(field, i, j, v) ==
    /\ Unwritten(orders, v)
    /\ i \in DOMAIN returnedAlias
    /\ LET at == returnedAlias[i]
       IN  /\ j \in DOMAIN orders[at].Packs
           /\ orders' = CASE field = "Quantity" -> writeQuantity(orders, at, j, v)
                          [] field = "Amount" -> writeAmount(orders, at, j, v)
                          [] OTHER -> orders
    /\ ret' = Returned("CallerWritesOrder", <<field, i, j, v>>, "nil", <<>>)
    /\ UNCHANGED <<packs, SoftLimit, created, born, order, pc, local, readers>>

\* the caller assigns to element i of the slice GetPacks returned, or to its Amount
CallerWritesPack(field, i, v) ==
    /\ ret.op = "GetPacks"
    /\ i \in DOMAIN ret.out
    /\ ret.out[i] # v
    /\ packs' = IF field = "Amount" THEN writePack(packs, getPacksAlias(packs), i, v)
                ELSE packs
    /\ ret' = Returned("CallerWritesPack", <<field, i, v>>, "nil", <<>>)
    /\ UNCHANGED <<orders, SoftLimit, created, born, order, pc, local, readers>>

NextAlias ==
    \/ \E amount \in 1..MaxAmount : AddPack(amount)
    \/ \E requestedItems \in 1..MaxRequested :
           created < MaxAliasCalls /\ CalculateOrder(requestedItems)
    \/ GetPacks
    \/ GetOrders
    \/ \E field \in {"RequestedItems", "Packs", "Quantity", "Amount"},
          i \in 1..MaxSoftLimit, j \in 1..(2 * MaxRequested) :
           CallerWritesOrder(field, i, j, WrittenValue)
    \/ \E field \in {"element", "Amount"}, i \in 1..MaxSoftLimit :
           CallerWritesPack(field, i, WrittenValue)

SpecAlias == Init /\ [][NextAlias]_vars

\* C17: writing to the value GetOrders or CalculateOrder returned, to an
\* order in it or to a line's quantity or pack, does not change what a later
\* GetOrders returns.
C17_HistoryImmutable ==
    ret.op = "CallerWritesOrder" => getOrders(orders) = getOrders(ret.pre.orders)

\* C18: writing to the slice GetPacks returned, or to the Amount of a pack in
\* it, changes neither what a later GetPacks returns nor the orders a later
\* CalculateOrder computes.
C18_GetPacksReturnsCopy ==
    ret.op = "CallerWritesPack" =>
        /\ packs = ret.pre.packs
        /\ getPacks(packs) = getPacks(ret.pre.packs)
        /\ \A requestedItems \in 1..MaxRequested :
               calculate(getPacks(resortPacks(packs)), requestedItems)
                   = calculate(getPacks(resortPacks(ret.pre.packs)), requestedItems)

\* the caller has overwritten the Amount of the largest of several returned packs
C18_Witness ==
    /\ ret.op = "CallerWritesPack"
    /\ ret.in[1] = "Amount"
    /\ ret.in[2] = 1
    /\ Len(packs) >= 2
    /\ ret.in[3] = WrittenValue


(***************************************************************************)
(* Consolidation inside CalculateOrder                                     *)
(***************************************************************************)
\* C19: the order CalculateOrder returns has at most as many lines as the
\* order had after greedy fill and residual addition, before mergePacks ran.
C19_MergeNeverAddsLines ==
    CalcSucceeded => Len(ret.out.Packs) <= Len(RawOrder.Packs)

\* a call in which mergePacks took lines out of the order
C19_Witness ==
    /\ CalcSucceeded
    /\ Len(ret.out.Packs) < Len(RawOrder.Packs)

\* C20: in the order CalculateOrder returns no pack size S with summed
\* quantity q has a larger catalog size T that is an exact multiple of S with
\* q >= T / S: the loop of mergePacks has reached a fixed point.
C20_MergeReachesFixedPoint ==
    CalcSucceeded =>
        \A i \in DOMAIN ret.out.Packs : \A k \in DOMAIN ret.pre.packs :
            ~canMerge(ret.out.Packs[i].Pack,
                      groupCount(ret.out.Packs, ret.out.Packs[i].Pack),
                      ret.pre.packs[k])

\* a call whose order took more than one iteration of the loop to settle
C20_Witness ==
    /\ CalcSucceeded
    /\ ret.out.Packs \notin
           mergeLoop(getSortedPackSizes(getPacks(resortPacks(ret.pre.packs))),
                     RawOrder.Packs, 1)


(***************************************************************************)
(* The steps of CalculateOrder one by one                                  *)
(***************************************************************************)
\* the catalog snapshot of the last call, and what useFullPacks made of it
Snapshot == getPacks(resortPacks(ret.pre.packs))
Filled == useFullPacks(Snapshot, Order(ret.in[1], 0, 0, <<>>))

\* what is left of requestedItems when the packs before index i have been used
RECURSIVE remainingBefore(_, _, _)
remainingBefore(ps, i, requestedItems) ==
    IF i = 1 THEN requestedItems
    ELSE remainingBefore(ps, i - 1, requestedItems) % ps[i - 1]

\* the lines a single pass over ps gives: size s with quantity
\* floor(remaining before s / s), when that is more than 0
RECURSIVE singlePass(_, _, _)
singlePass(ps, i, requestedItems) ==
    IF i > Len(ps) THEN <<>>
    ELSE LET q == remainingBefore(ps, i, requestedItems) \div ps[i]
         IN  (IF q > 0 THEN <<OrderPack(q, ps[i])>> ELSE <<>>)
                 \o singlePass(ps, i + 1, requestedItems)

\* C21: on a strictly descending catalog useFullPacks makes one pass: size s
\* gets quantity floor(remaining before s / s), a line is emitted only for a
\* quantity above 0, the lines are in strictly descending size order,
\* TotalItems + remaining = RequestedItems, and 0 <= remaining < smallest size.
C21_GreedySinglePass ==
    CalcSucceeded =>
        /\ Filled.order.Packs = singlePass(Snapshot, 1, ret.in[1])
        /\ \A i \in DOMAIN Filled.order.Packs : Filled.order.Packs[i].Quantity > 0
        /\ \A i, j \in DOMAIN Filled.order.Packs :
               i < j => Filled.order.Packs[i].Pack > Filled.order.Packs[j].Pack
        /\ Filled.order.TotalItems + Filled.remainingItems = ret.in[1]
        /\ Filled.order.TotalItems = linesTotal(Filled.order.Packs)
        /\ 0 <= Filled.remainingItems
        /\ Filled.remainingItems < Snapshot[Len(Snapshot)]

\* greedy fill that used two sizes, one of them twice, skipped a size and left a rest
C21_Witness ==
    /\ CalcSucceeded
    /\ Len(Filled.order.Packs) >= 2
    /\ Len(Snapshot) > Len(Filled.order.Packs)
    /\ Filled.remainingItems > 0
    /\ \E i \in DOMAIN Filled.order.Packs : Filled.order.Packs[i].Quantity >= 2


\* C22: addPackForRemainingItems returns the order as it was when remaining
\* <= 0; when remaining > 0 it appends exactly one line, one pack of the
\* smallest size, after the lines there are, and adds that size to
\* TotalItems, whatever the value of remaining.
C22_ResidualAddsOneSmallest ==
    CalcSucceeded =>
        \A remainingItems \in (0 - MaxPackSize)..MaxItems :
            LET o == Filled.order
                added == addPackForRemainingItems(remainingItems, Snapshot, o)
                smallest == Snapshot[Len(Snapshot)]
            IN  IF remainingItems <= 0
                THEN added = o
                ELSE /\ added.Packs = Append(o.Packs, OrderPack(1, smallest))
                     /\ added.TotalItems = o.TotalItems + smallest
                     /\ added.RequestedItems = o.RequestedItems
                     /\ added.OverpackedItems = o.OverpackedItems

\* a call whose greedy fill left a rest behind lines it had emitted, on a
\* catalog whose smallest size is not the rest
C22_Witness ==
    /\ CalcSucceeded
    /\ Filled.remainingItems > 0
    /\ Filled.order.Packs # <<>>
    /\ Snapshot[Len(Snapshot)] > Filled.remainingItems + 1
    /\ Len(RawOrder.Packs) = Len(Filled.order.Packs) + 1


(***************************************************************************)
(* The catalog during a calculation                                        *)
(***************************************************************************)
\* goroutine p is inside CalculateOrder, between RLock and the deferred RUnlock
InCall(p) == pc[p] \notin {"idle", "done"}

\* C23: while a CalculateOrder call is between its emptiness check and its
\* return no AddPack, UpdatePack or DeletePack takes effect, and every line
\* of the order it returns has a size of the catalog the call began with,
\* under any interleaving of concurrent calls.
C23_StableCatalogSnapshot ==
    [][\A p \in Procs :
           InCall(p) =>
               /\ packs' = packs
               /\ (pc'[p] = "done" /\ local'[p].err = "nil") =>
                      \A i \in DOMAIN local'[p].order.Packs :
                          Has(packs, local'[p].order.Packs[i].Pack)]_vars

\* two calls hold the read lock together, on a catalog that a successful
\* mutation has changed, and one of them has built and stored its order
C23_Witness ==
    /\ \A p \in Procs : InCall(p)
    /\ readers >= 2
    /\ ret.op \in {"AddPack", "UpdatePack", "DeletePack"}
    /\ ret.err = "nil"
    /\ ret.pre.packs # packs
    /\ \E p \in Procs : pc[p] = "stored" /\ local[p].order.Packs # <<>>


(***************************************************************************)
(* Overpack                                                                *)
(***************************************************************************)
\* the smallest amount in a non-empty slice of packs
smallestAmount(s) == CHOOSE x \in Amounts(s) : \A y \in Amounts(s) : x <= y

\* C24: for every non-empty catalog of distinct positive sizes and every
\* R > 0 the OverpackedItems of the order CalculateOrder returns is less than
\* the smallest pack size of the catalog.
C24_OverpackBelowSmallest ==
    CalcSucceeded =>
        /\ ret.out.OverpackedItems < smallestAmount(ret.pre.packs)
        /\ ret.out.OverpackedItems >= 0

\* the largest overpack there can be, on a catalog of several sizes
C24_Witness ==
    /\ CalcSucceeded
    /\ Len(ret.pre.packs) >= 2
    /\ smallestAmount(ret.pre.packs) >= 3
    /\ ret.out.OverpackedItems = smallestAmount(ret.pre.packs) - 1


(***************************************************************************)
(* The cross-size merge step                                               *)
(***************************************************************************)
\* the iterations of the last mergePacks call: order.Packs at their start
Iterations == mergeIterations(getSortedPackSizes(getPacks(packs)), ret.in[1], Len(packs))

\* tryMergeSameSizePacks can return false on ls
SameSizeFails(ls) ==
    \E r \in tryMergeSameSizePacks(getSortedPackSizes(getPacks(packs)), ls) : ~r.merged

\* C25: in every iteration of mergePacks in which tryMergeSameSizePacks
\* returns false, tryMergeDifferentSizePacks finds no match and leaves the
\* lines as they are, for any catalog and any lines of positive quantity.
C25_CrossSizeMergeIsNoOp ==
    ret.op = "mergePacks" =>
        \A ls \in Iterations :
            \A r \in tryMergeSameSizePacks(getSortedPackSizes(getPacks(packs)), ls) :
                ~r.merged =>
                    tryMergeDifferentSizePacks(getSortedPackSizes(getPacks(packs)), r.Packs)
                        = r.Packs

\* after a merge, an iteration in which the same-size step fails although a
\* line has a larger multiple in the catalog, so the cross-size step tests it
C25_Witness ==
    /\ ret.op = "mergePacks"
    /\ \E ls \in Iterations :
           /\ ls # ret.in[1]
           /\ SameSizeFails(ls)
           /\ \E i \in DOMAIN ls : \E k \in DOMAIN packs :
                  packs[k] > ls[i].Pack /\ packs[k] % ls[i].Pack = 0

====
